---- MODULE Spec2Model ----
(***************************************************************************)
(* Cache lineage protocol of the example agents: start_agent,              *)
(* continue_agent, merge_agent, continue_agent_standby and story_agent,    *)
(* running as concurrent tasks over one key-value store, one table of      *)
(* exported KV-page lists and one arena of physical KV pages.              *)
(* Also the fan-in of news_agent over the topic bus, and the runs of the   *)
(* tag-protocol agents agent_generator and agent_summarizer.               *)
(***************************************************************************)
EXTENDS Integers, Sequences, FiniteSets, TLC

\* ---------------------------------------------------------------- bounds
NumTasks == 3        \* task identifiers 1..NumTasks, each run at most once
MaxNew == 2          \* most tokens one direct-path generation adds
PageSize == 2        \* model.get_kv_page_size(): tokens per KV page
StoryRuns == 2       \* story_agent runs of the recompute workflow
NumDesks == 4        \* desk reports published to topic/editor_inbox
NumCycles == 2       \* aggregation cycles of the editor
MaxText == 2         \* longest generated text of a tag-protocol run, in atoms
NumWires == 3        \* WIRE runs that publish to topic/global_news

Tasks == 1..NumTasks
NoTok == -1          \* an unwritten slot of a KV page
EosTok == 0          \* the token of model.eos_tokens()

VARIABLES
    store,      \* key-value store: key -> value (store_set / store_get)
    exported,   \* exported resources: key -> list of page ids
    kv,         \* arena of physical KV pages: page id -> [owner, data]
    task,       \* per task identifier: the local state of its run
    bus,        \* topic bus: topic -> queue of payloads (broadcast / subscribe)
    news,       \* news_agent runs: payloads published, desks, editor cycles
    tagrun      \* the run of a tag-protocol agent (generator or summarizer)

vars == <<store, exported, kv, task, bus, news, tagrun>>

\* ------------------------------------------------------------------ keys
\* format!("{}_kv", id), format!("{}_meta", id), format!("{}_output", id)
KvKey(id) == <<id, "_kv">>
MetaKey(id) == <<id, "_meta">>
OutputKey(id) == <<id, "_output">>

\* ------------------------------------------------------------ JSON records
\* A serialized record keeps the set of fields its writer's struct has.
\* start_agent and continue_agent: token_ids, kv_page_last_len, kv_chain.
ChainMeta(token_ids, last_len, chain) ==
    [fields |-> {"token_ids", "kv_page_last_len", "kv_chain"},
     token_ids |-> token_ids, kv_page_last_len |-> last_len, kv_chain |-> chain]

\* continue_agent_standby: token_ids, kv_page_last_len (no kv_chain field).
PlainMeta(token_ids, last_len) ==
    [fields |-> {"token_ids", "kv_page_last_len"},
     token_ids |-> token_ids, kv_page_last_len |-> last_len, kv_chain |-> <<>>]

\* continue_agent's AgentMeta: all three fields are required by serde.
ContinueParses(m) == {"token_ids", "kv_page_last_len", "kv_chain"} \subseteq m.fields

\* merge_agent's AgentMeta: kv_chain has #[serde(default)], the rest is required.
MergeParses(m) == {"token_ids", "kv_page_last_len"} \subseteq m.fields

\* merge_agent: the chain read from the record, empty when the field is absent.
MergeChainOf(m) == IF "kv_chain" \in m.fields THEN m.kv_chain ELSE <<>>

\* ------------------------------------------------------------ local state
IdleTask ==
    [pc |-> "idle", kind |-> "none", parents |-> <<>>,
     base_missing |-> FALSE, missing_ref |-> FALSE,
     chain |-> <<>>, imported |-> 0, base_len |-> 0,
     pages |-> <<>>, token_ids |-> <<>>, last_len |-> 0,
     added |-> 0, log |-> <<>>,
     mode |-> "", max_tokens |-> 0, results |-> <<>>,
     tokens_to_process |-> <<>>, current_pos |-> 0, gen_count |-> 0,
     fed |-> <<>>, passes |-> 0,
     prompt |-> <<>>, generated |-> <<>>, passlog |-> <<>>]

InFlight == {t \in Tasks : task[t].pc \notin {"idle", "done", "failed"}}

\* parent_task_ids of the input of task t: no parent or one base; for
\* merge_agent, the only agent that reads past element 0, no parent, one
\* parent, or a base and one reference (the first task of the workflow).
\* start_agent reads none.
\* Identifiers are numbered in launch order, so a task launched later than t
\* has written nothing when t reads the store: naming it is naming t itself.
BaseLists(t) == {<<>>} \cup {<<a>> : a \in 1..t}
ParentLists(t) == {<<>>, <<1>>} \cup {<<a, 1>> : a \in 1..t}

\* Task identifiers are opaque names, each run at most once: they are
\* numbered in launch order.
CanLaunch(t) ==
    /\ task[t].pc = "idle"
    /\ \A u \in Tasks : u < t => task[u].pc # "idle"

Logged(t, op, key) == Append(task[t].log, [op |-> op, key |-> key])

\* ------------------------------------------------------------ KV pages
EmptyPage(t) == [owner |-> t, data |-> [i \in 1..PageSize |-> NoTok]]

\* The token a task mints as its k-th own token.
Tok(t, k) == t * 10 + k

\* queue.import_kv_pages(key): the page list exported under key.
ImportKvPages(key) == IF key \in DOMAIN exported THEN exported[key] ELSE <<>>

\* for key in chain { all_kv_pages.append(import_kv_pages(key)) }
RECURSIVE ImportChain(_)
ImportChain(chain) ==
    IF chain = <<>> THEN <<>>
    ELSE ImportKvPages(Head(chain)) \o ImportChain(Tail(chain))


Put(f, k, v) == [x \in DOMAIN f \cup {k} |-> IF x = k THEN v ELSE f[x]]

\* Position of a step in an agent's save sequence; the step after it.
RECURSIVE IndexOf(_, _)
IndexOf(seq, x) ==
    IF seq = <<>> THEN 1
    ELSE IF Head(seq) = x THEN 1 ELSE 1 + IndexOf(Tail(seq), x)

StepAfter(order, cur) ==
    IF IndexOf(order, cur) < Len(order) THEN order[IndexOf(order, cur) + 1] ELSE "done"

\* ------------------------------------------------------------ Context
\* Context::from_imported_state(model, pages, token_ids, kv_page_last_len)
\* and model.create_context() (no page, no token).
FromImportedState(s, pages, token_ids, last_len) ==
    [s EXCEPT !.pages = pages, !.imported = Len(pages),
              !.token_ids = token_ids, !.last_len = last_len,
              !.base_len = Len(token_ids), !.pc = "gen"]

CreateContext(s) == FromImportedState(s, <<>>, <<>>, 0)

\* One token joins the context (fill_* and generate): its KV entry goes to
\* the slot after kv_page_last_len of the last page, or to the first slot of
\* a page allocated now when there is no page or the last one is full.
GenStep(t) ==
    LET s == task[t]
        full == s.pages = <<>> \/ s.last_len = PageSize
        kv1 == IF full THEN Append(kv, EmptyPage(t)) ELSE kv
        pages1 == IF full THEN Append(s.pages, Len(kv1)) ELSE s.pages
        slot == IF full THEN 1 ELSE s.last_len + 1
        tok == Tok(t, s.added + 1)
    IN  /\ s.pc = "gen"
        /\ s.added < MaxNew
        /\ kv' = [kv1 EXCEPT ![pages1[Len(pages1)]].data[slot] = tok]
        /\ task' = [task EXCEPT ![t] =
                [s EXCEPT !.pages = pages1, !.token_ids = Append(@, tok),
                          !.last_len = slot, !.added = @ + 1]]
        /\ UNCHANGED <<store, exported, bus, news, tagrun>>

\* ------------------------------------------------------------ start_agent
\* A root that writes its record before it exports its pages.
RecordFirstOrder == <<"meta", "export", "output">>

\* The statements after generation, in source order.
StartSaveOrder == <<"export", "meta", "output">>

\* let my_chain = vec![kv_resource_name.clone()];
StartChain(t) == <<KvKey(t)>>

StartBegin(t) ==
    /\ CanLaunch(t)
    /\ task' = [task EXCEPT ![t] = CreateContext([IdleTask EXCEPT !.kind = "start"])]
    /\ UNCHANGED <<store, exported, kv, bus, news, tagrun>>

StartExport(t) ==
    /\ task[t].kind = "start" /\ task[t].pc = "export"
    /\ exported' = Put(exported, KvKey(t), task[t].pages)
    /\ task' = [task EXCEPT ![t].log = Logged(t, "export", KvKey(t)),
                            ![t].pc = StepAfter(StartSaveOrder, "export")]
    /\ UNCHANGED <<store, kv, bus, news, tagrun>>

StartMeta(t) ==
    /\ task[t].kind = "start" /\ task[t].pc = "meta"
    /\ store' = Put(store, MetaKey(t),
                    ChainMeta(task[t].token_ids, task[t].last_len, StartChain(t)))
    /\ task' = [task EXCEPT ![t].log = Logged(t, "set", MetaKey(t)),
                            ![t].pc = StepAfter(StartSaveOrder, "meta")]
    /\ UNCHANGED <<exported, kv, bus, news, tagrun>>

StartOutput(t) ==
    /\ task[t].kind = "start" /\ task[t].pc = "output"
    /\ store' = Put(store, OutputKey(t), [text |-> t])
    /\ task' = [task EXCEPT ![t].log = Logged(t, "set", OutputKey(t)),
                            ![t].pc = StepAfter(StartSaveOrder, "output")]
    /\ UNCHANGED <<exported, kv, bus, news, tagrun>>

\* --------------------------------------------------------- continue_agent
ContinueSaveOrder == <<"export", "meta", "output">>

\* A resolver that imports only the most recent key of the chain.
ImportLastOnly(chain) ==
    IF chain = <<>> THEN <<>> ELSE ImportKvPages(chain[Len(chain)])

\* for key in &current_chain { all_kv_pages.append(&mut import_kv_pages(key)) }
ContinueLoad(chain) == ImportChain(chain)

\* A run that names its export after its base instead of itself.
BaseKvKey(task_id, parent_task_ids) == KvKey(parent_task_ids[1])

\* let my_kv_key = format!("{}_kv", input.task_id);
MyKvKey(task_id, parent_task_ids) == KvKey(task_id)

\* A chain that keeps only the most recent ancestor's key before the new one.
LastAncestorChain(chain, key) ==
    IF chain = <<>> THEN <<key>> ELSE <<chain[Len(chain)], key>>

\* current_chain.push(my_kv_key)
ContinueChain(chain, key) == Append(chain, key)

\* A run that exports its whole page list, as a root does.
ExportAllPages(pages, imported, key) == <<[key |-> key, pages |-> pages]>>

\* A run that makes no export call when it allocated no page.
SkipEmptyExport(pages, imported, key) ==
    IF Len(pages) - imported > 0
    THEN <<[key |-> key, pages |-> SubSeq(pages, imported + 1, Len(pages))]>>
    ELSE <<>>

\* The export calls of one run: the slice [imported..] when new_pages_count
\* is positive, an empty list otherwise, both under "{task_id}_kv".
ContinueExportCalls(pages, imported, key) ==
    IF Len(pages) - imported > 0
    THEN <<[key |-> key, pages |-> SubSeq(pages, imported + 1, Len(pages))]>>
    ELSE <<[key |-> key, pages |-> <<>>]>>

ContinueBegin(t) ==
    /\ CanLaunch(t)
    /\ \E ps \in BaseLists(t) :
         LET s == [IdleTask EXCEPT !.kind = "continue", !.parents = ps]
         IN  task' = [task EXCEPT ![t] =
                IF ps = <<>> THEN [s EXCEPT !.pc = "failed"]
                ELSE IF MetaKey(ps[1]) \notin DOMAIN store
                     THEN [s EXCEPT !.pc = "failed", !.base_missing = TRUE]
                ELSE IF ~ContinueParses(store[MetaKey(ps[1])])
                     THEN [s EXCEPT !.pc = "failed"]
                ELSE [s EXCEPT !.pc = "import",
                               !.chain = store[MetaKey(ps[1])].kv_chain,
                               !.token_ids = store[MetaKey(ps[1])].token_ids,
                               !.last_len = store[MetaKey(ps[1])].kv_page_last_len]]
    /\ UNCHANGED <<store, exported, kv, bus, news, tagrun>>

ContinueImport(t) ==
    /\ task[t].kind = "continue" /\ task[t].pc = "import"
    /\ task' = [task EXCEPT ![t] =
            FromImportedState(task[t], ContinueLoad(task[t].chain),
                              task[t].token_ids, task[t].last_len)]
    /\ UNCHANGED <<store, exported, kv, bus, news, tagrun>>

RECURSIVE ApplyExports(_, _)
ApplyExports(ex, calls) ==
    IF calls = <<>> THEN ex
    ELSE ApplyExports(Put(ex, Head(calls).key, Head(calls).pages), Tail(calls))

RECURSIVE LogExports(_, _)
LogExports(log, calls) ==
    IF calls = <<>> THEN log
    ELSE LogExports(Append(log, [op |-> "export", key |-> Head(calls).key]), Tail(calls))

ContinueExport(t) ==
    LET calls == ContinueExportCalls(task[t].pages, task[t].imported,
                                     MyKvKey(t, task[t].parents))
    IN  /\ task[t].kind = "continue" /\ task[t].pc = "export"
        /\ exported' = ApplyExports(exported, calls)
        /\ task' = [task EXCEPT ![t].log = LogExports(task[t].log, calls),
                                ![t].pc = StepAfter(ContinueSaveOrder, "export")]
        /\ UNCHANGED <<store, kv, bus, news, tagrun>>

ContinueMeta(t) ==
    /\ task[t].kind = "continue" /\ task[t].pc = "meta"
    /\ store' = Put(store, MetaKey(t),
                    ChainMeta(task[t].token_ids, task[t].last_len,
                              ContinueChain(task[t].chain, MyKvKey(t, task[t].parents))))
    /\ task' = [task EXCEPT ![t].log = Logged(t, "set", MetaKey(t)),
                            ![t].pc = StepAfter(ContinueSaveOrder, "meta")]
    /\ UNCHANGED <<exported, kv, bus, news, tagrun>>

ContinueOutput(t) ==
    /\ task[t].kind = "continue" /\ task[t].pc = "output"
    /\ store' = Put(store, OutputKey(t), [text |-> t])
    /\ task' = [task EXCEPT ![t].log = Logged(t, "set", OutputKey(t)),
                            ![t].pc = StepAfter(ContinueSaveOrder, "output")]
    /\ UNCHANGED <<exported, kv, bus, news, tagrun>>


\* ------------------------------------------------------------ merge_agent
\* Only the output is saved ("代码逻辑同 Good，略": no export, no record).
MergeSaveOrder == <<"output">>

\* load_list: the base's kv_chain, or the legacy key when it is empty.
MergeLoadList(chain, base) == IF chain = <<>> THEN <<KvKey(base)>> ELSE chain

\* for key in &load_list { all_kv_pages.append(&mut import_kv_pages(key)) }
MergeLoad(load_list) == ImportChain(load_list)

MergeBegin(t) ==
    /\ CanLaunch(t)
    /\ \E ps \in ParentLists(t) :
         LET s == [IdleTask EXCEPT !.kind = "merge", !.parents = ps]
             r == IF Len(ps) < 2 THEN s
                  ELSE [s EXCEPT !.missing_ref =
                          \E i \in 2..Len(ps) : OutputKey(ps[i]) \notin DOMAIN store]
         IN  task' = [task EXCEPT ![t] =
                IF Len(ps) < 2 THEN [r EXCEPT !.pc = "failed"]
                ELSE IF MetaKey(ps[1]) \notin DOMAIN store
                     THEN [r EXCEPT !.pc = "failed", !.base_missing = TRUE]
                ELSE IF ~MergeParses(store[MetaKey(ps[1])])
                     THEN [r EXCEPT !.pc = "failed"]
                ELSE [r EXCEPT !.pc = "import",
                               !.chain = MergeLoadList(MergeChainOf(store[MetaKey(ps[1])]), ps[1]),
                               !.token_ids = store[MetaKey(ps[1])].token_ids,
                               !.last_len = store[MetaKey(ps[1])].kv_page_last_len]]
    /\ UNCHANGED <<store, exported, kv, bus, news, tagrun>>

MergeImport(t) ==
    /\ task[t].kind = "merge" /\ task[t].pc = "import"
    /\ task' = [task EXCEPT ![t] =
            FromImportedState(task[t], MergeLoad(task[t].chain),
                              task[t].token_ids, task[t].last_len)]
    /\ UNCHANGED <<store, exported, kv, bus, news, tagrun>>

MergeOutput(t) ==
    /\ task[t].kind = "merge" /\ task[t].pc = "output"
    /\ store' = Put(store, OutputKey(t), [text |-> t])
    /\ task' = [task EXCEPT ![t].log = Logged(t, "set", OutputKey(t)),
                            ![t].pc = StepAfter(MergeSaveOrder, "output")]
    /\ UNCHANGED <<exported, kv, bus, news, tagrun>>

\* ------------------------------------------------- continue_agent_standby
StandbySaveOrder == <<"export", "meta", "output">>

StandbyBegin(t) ==
    /\ CanLaunch(t)
    /\ \E ps \in BaseLists(t) :
         LET s == [IdleTask EXCEPT !.kind = "standby", !.parents = ps]
         IN  task' = [task EXCEPT ![t] =
                IF ps = <<>> THEN [s EXCEPT !.pc = "failed"]
                ELSE IF OutputKey(ps[1]) \notin DOMAIN store
                     THEN [s EXCEPT !.pc = "failed", !.missing_ref = TRUE]
                ELSE CreateContext(s)]
    /\ UNCHANGED <<store, exported, kv, bus, news, tagrun>>

StandbyExport(t) ==
    /\ task[t].kind = "standby" /\ task[t].pc = "export"
    /\ exported' = Put(exported, KvKey(t), task[t].pages)
    /\ task' = [task EXCEPT ![t].log = Logged(t, "export", KvKey(t)),
                            ![t].pc = StepAfter(StandbySaveOrder, "export")]
    /\ UNCHANGED <<store, kv, bus, news, tagrun>>

StandbyMeta(t) ==
    /\ task[t].kind = "standby" /\ task[t].pc = "meta"
    /\ store' = Put(store, MetaKey(t), PlainMeta(task[t].token_ids, task[t].last_len))
    /\ task' = [task EXCEPT ![t].log = Logged(t, "set", MetaKey(t)),
                            ![t].pc = StepAfter(StandbySaveOrder, "meta")]
    /\ UNCHANGED <<exported, kv, bus, news, tagrun>>

StandbyOutput(t) ==
    /\ task[t].kind = "standby" /\ task[t].pc = "output"
    /\ store' = Put(store, OutputKey(t), [text |-> t])
    /\ task' = [task EXCEPT ![t].log = Logged(t, "set", OutputKey(t)),
                            ![t].pc = StepAfter(StandbySaveOrder, "output")]
    /\ UNCHANGED <<exported, kv, bus, news, tagrun>>

\* ------------------------------------------------------------ story_agent
\* TaskMetadata { token_ids }: the only field written and the only one read.
TokenMeta(token_ids) ==
    [fields |-> {"token_ids"},
     token_ids |-> token_ids, kv_page_last_len |-> 0, kv_chain |-> <<>>]

StoryParses(m) == "token_ids" \in m.fields

\* (n + page_size - 1) / page_size
PagesNeeded(n) == (n + PageSize - 1) \div PageSize

\* Inputs of the runs that take part in a lineage: one prompt token, one
\* generated token, parent_task_id None or Some(a).
LineageStoryInputs(t) ==
    {[mode |-> "start", parent |-> <<>>, plen |-> 1, max_tokens |-> 1,
      results |-> <<"tok">>]}
    \cup {[mode |-> m, parent |-> p, plen |-> 1, max_tokens |-> 1,
           results |-> <<"tok">>] : m \in {"continue", "merge"}, p \in BaseLists(t)}

\* match req.mode: the history a run starts from.
StoryHistory(mode, parent) ==
    IF mode \in {"continue", "merge"} /\ parent # <<>>
       /\ MetaKey(parent[1]) \in DOMAIN store
       /\ StoryParses(store[MetaKey(parent[1])])
    THEN store[MetaKey(parent[1])].token_ids
    ELSE <<>>

\* while kv_pages.len() < pages_needed { kv_pages.push(queue.new_kv_page()) }
RECURSIVE GrowArena(_, _, _)
GrowArena(arena, t, n) ==
    IF n <= 0 THEN arena ELSE GrowArena(Append(arena, EmptyPage(t)), t, n - 1)

GrowPages(pages, arenaLen, n) ==
    pages \o [i \in 1..(IF n > 0 THEN n ELSE 0) |-> arenaLen + i]

\* The forward executor stores the KV entry of the token at position p in
\* slot p % page_size of page p / page_size of the list it is given; an
\* entry whose page is not in the list is not stored.
RECURSIVE ExecWrite(_, _, _, _)
ExecWrite(arena, pages, tokens, pos) ==
    IF tokens = <<>> THEN arena
    ELSE LET idx == (pos \div PageSize) + 1
             a1 == IF idx <= Len(pages)
                   THEN [arena EXCEPT ![pages[idx]].data[(pos % PageSize) + 1] = Head(tokens)]
                   ELSE arena
         IN  ExecWrite(a1, pages, Tail(tokens), pos + 1)

\* let positions = (0..n).map(|i| current_pos + i): what one forward pass
\* feeds, token by token (the prefill pass starts at 0).
PassPositions(current_pos, tokens) ==
    [i \in 1..Len(tokens) |-> [pos |-> current_pos + i - 1, tok |-> tokens[i]]]

\* A loop that feeds every pass at the position of the first one.
SamePos(current_pos, n) == current_pos

\* current_pos += tokens_to_process.len()
NextPos(current_pos, n) == current_pos + n

\* A loop that never looks at its budget.
LoopForever(gen_count, max_gen) == TRUE

\* while gen_count < max_gen
LoopGuard(gen_count, max_gen) == gen_count < max_gen

StoryBegin(t, inputs) ==
    /\ CanLaunch(t)
    /\ \E in \in inputs :
         /\ task' = [task EXCEPT ![t] =
                [IdleTask EXCEPT !.kind = "story", !.pc = "prefill",
                     !.parents = in.parent, !.mode = in.mode,
                     !.max_tokens = in.max_tokens, !.results = in.results,
                     !.tokens_to_process = [k \in 1..in.plen |-> Tok(t, k)],
                     !.prompt = [k \in 1..in.plen |-> Tok(t, k)],
                     !.base_missing = in.mode \in {"continue", "merge"}
                            /\ in.parent # <<>>
                            /\ MetaKey(in.parent[1]) \notin DOMAIN store,
                     !.token_ids = StoryHistory(in.mode, in.parent),
                     !.base_len = Len(StoryHistory(in.mode, in.parent)),
                     !.pages = <<Len(kv) + 1>>]]
         /\ kv' = Append(kv, EmptyPage(t))
    /\ UNCHANGED <<store, exported, bus, news, tagrun>>

\* Prefill of the history, then tokenize(prompt) and the test that guards
\* the generation loop.
StoryPrefill(t) ==
    LET s == task[t]
        hist == Len(s.token_ids)
        more == PagesNeeded(hist) - Len(s.pages)
        kv1 == GrowArena(kv, t, more)
        pages1 == GrowPages(s.pages, Len(kv), more)
    IN  /\ s.kind = "story" /\ s.pc = "prefill"
        /\ kv' = IF hist > 0 THEN ExecWrite(kv1, pages1, s.token_ids, 0) ELSE kv
        /\ task' = [task EXCEPT ![t] =
                [s EXCEPT !.pages = IF hist > 0 THEN pages1 ELSE s.pages,
                          !.last_len = IF hist > 0 THEN hist % PageSize ELSE 0,
                          !.current_pos = hist,
                          !.fed = IF hist > 0 THEN PassPositions(0, s.token_ids) ELSE <<>>,
                          !.passlog = IF hist > 0
                                      THEN <<[segments |-> Len(pages1), last_pos |-> hist - 1]>>
                                      ELSE <<>>,
                          !.pc = IF s.tokens_to_process # <<>> THEN "loop" ELSE "export"]]
        /\ UNCHANGED <<store, exported, bus, news, tagrun>>

\* One iteration of `while gen_count < max_gen`: a forward pass over
\* tokens_to_process, then the bookkeeping for the sampled token.
StoryPass(t) ==
    LET s == task[t]
        res == IF s.results = <<>> THEN "none" ELSE Head(s.results)
        next_token == IF res = "eos" THEN EosTok ELSE Tok(t, 5 + s.gen_count + 1)
        kv1 == ExecWrite(kv, s.pages, s.tokens_to_process, s.current_pos)
        hist1 == s.token_ids \o s.tokens_to_process
        more == PagesNeeded(Len(hist1)) - Len(s.pages)
    IN  /\ s.kind = "story" /\ s.pc = "loop"
        /\ LoopGuard(s.gen_count, s.max_tokens)
        /\ IF res = "none"
           THEN /\ kv' = kv1
                /\ task' = [task EXCEPT ![t] =
                        [s EXCEPT !.results = IF @ = <<>> THEN @ ELSE Tail(@),
                                  !.fed = @ \o PassPositions(s.current_pos, s.tokens_to_process),
                                  !.passes = @ + 1,
                                  !.passlog = Append(@, [segments |-> Len(s.pages),
                                      last_pos |-> s.current_pos + Len(s.tokens_to_process) - 1]),
                                  !.pc = "finish"]]
           ELSE /\ kv' = GrowArena(kv1, t, more)
                /\ task' = [task EXCEPT ![t] =
                        [s EXCEPT !.results = Tail(@),
                                  !.token_ids = hist1,
                                  !.current_pos = NextPos(@, Len(s.tokens_to_process)),
                                  !.fed = @ \o PassPositions(s.current_pos, s.tokens_to_process),
                                  !.passes = @ + 1,
                                  !.passlog = Append(@, [segments |-> Len(s.pages),
                                      last_pos |-> s.current_pos + Len(s.tokens_to_process) - 1]),
                                  !.pages = GrowPages(@, Len(kv1), more),
                                  !.last_len = Len(hist1) % PageSize,
                                  !.tokens_to_process = <<next_token>>,
                                  !.generated = Append(@, next_token),
                                  !.gen_count = @ + 1,
                                  !.added = @ + 1,
                                  !.pc = IF next_token = EosTok THEN "finish" ELSE "loop"]]
        /\ UNCHANGED <<store, exported, bus, news, tagrun>>

\* A run that forgets the tokens still waiting when the loop is left.
DropPending(token_history, tokens_to_process) == token_history

\* token_history.extend_from_slice(&tokens_to_process)
FinalExtend(token_history, tokens_to_process) == token_history \o tokens_to_process

\* The loop is left (break, or gen_count reached max_gen): the tokens still
\* in tokens_to_process join the history.
StoryFinish(t) ==
    LET s == task[t]
    IN  /\ s.kind = "story"
        /\ s.pc = "finish" \/ (s.pc = "loop" /\ ~LoopGuard(s.gen_count, s.max_tokens))
        /\ task' = [task EXCEPT ![t] =
                [s EXCEPT !.token_ids = FinalExtend(@, s.tokens_to_process),
                          !.pc = "export"]]
        /\ UNCHANGED <<store, exported, kv, bus, news, tagrun>>

\* queue.export_kv_pages(&kv_pages, &req.task_id): the key is the bare id.
StoryKvKey(t) == <<t, "">>

StoryExport(t) ==
    /\ task[t].kind = "story" /\ task[t].pc = "export"
    /\ exported' = Put(exported, StoryKvKey(t), task[t].pages)
    /\ task' = [task EXCEPT ![t].log = Logged(t, "export", StoryKvKey(t)),
                            ![t].pc = "meta"]
    /\ UNCHANGED <<store, kv, bus, news, tagrun>>

\* The record is the last thing the run does: its locals end with it.
StoryMeta(t) ==
    /\ task[t].kind = "story" /\ task[t].pc = "meta"
    /\ store' = Put(store, MetaKey(t), TokenMeta(task[t].token_ids))
    /\ task' = [task EXCEPT ![t] =
            [IdleTask EXCEPT !.kind = "story", !.pc = "done",
                             !.log = Logged(t, "set", MetaKey(t))]]
    /\ UNCHANGED <<exported, kv, bus, news, tagrun>>

\* ------------------------------------------------------------ news_agent
\* Texts are sequences of atoms: a desk's word, or the characters "TAG: "
\* with TAG one of the three prefixes; headings and placeholders are atoms
\* of their own.
Topics == {"topic/global_news", "topic/editor_inbox"}
EditorInbox == "topic/editor_inbox"
GlobalNews == "topic/global_news"

Desks == 1..NumDesks
Cycles == 1..NumCycles

Prefixes == {"POLITICS", "TECH", "SPORTS"}

TagAtom(prefix) == [tag |-> prefix, word |-> 0]
Word(d) == [tag |-> "", word |-> d]
Literal(text) == [tag |-> text, word |-> -1]

\* broadcast(topic, payload): the payload joins the end of the topic's queue.
Broadcast(b, topic, payload) == [b EXCEPT ![topic] = Append(@, payload)]

\* subscribe(topic).await returns the oldest payload and removes it.
Subscribe(b, topic) == [b EXCEPT ![topic] = Tail(@)]

IdleDesk == [pc |-> "idle", raw_news |-> <<>>, payload |-> <<>>]

IdleEditor ==
    [pc |-> "idle", i |-> 0, p_report |-> <<>>, t_report |-> <<>>,
     s_report |-> <<>>, received |-> <<>>, prompt |-> <<>>]

\* if instruction.contains("POLITICS") .. else if contains("TECH") .. else
DeskPrefix(instruction) ==
    IF instruction.politics THEN "POLITICS"
    ELSE IF instruction.tech THEN "TECH" ELSE "SPORTS"

\* format!("{}: {}", prefix, analysis)
Payload(prefix, analysis) == <<TagAtom(prefix)>> \o analysis

\* A desk's instruction (which of the words POLITICS and TECH it holds) and
\* the analysis the model wrote for it: the desk's word, alone or after an
\* echo of the desk's own "TAG: ".
DeskInputs(d) ==
    {[instruction |-> ins, analysis |-> a] :
        ins \in {[politics |-> TRUE, tech |-> FALSE],
                 [politics |-> FALSE, tech |-> TRUE],
                 [politics |-> FALSE, tech |-> FALSE]},
        a \in {<<Word(d)>>}}
    \cup {[instruction |-> ins, analysis |-> <<TagAtom(DeskPrefix(ins)), Word(d)>>] :
        ins \in {[politics |-> TRUE, tech |-> FALSE],
                 [politics |-> FALSE, tech |-> TRUE],
                 [politics |-> FALSE, tech |-> FALSE]}}

\* Desks are numbered in the order their reports reach the topic.
CanReport(d) ==
    /\ news.desk[d].pc = "idle"
    /\ \A c \in Desks : c < d => news.desk[c].pc # "idle"

\* The rest of the desk branch: analysis, prefix, payload, broadcast.
PublishReport(d) ==
    \E in \in DeskInputs(d) :
        LET payload == Payload(DeskPrefix(in.instruction), in.analysis)
        IN  /\ bus' = Broadcast(bus, EditorInbox, payload)
            /\ news' = [news EXCEPT !.published = Append(@, payload),
                                    !.desk[d].pc = "done",
                                    !.desk[d].payload = payload]

\* A desk that holds the wire's news: analysis, prefix, payload, broadcast.
DeskReport(d) ==
    /\ CanReport(d)
    /\ PublishReport(d)
    /\ UNCHANGED <<store, exported, kv, task, tagrun>>

\* The WIRE runs of the workflow, numbered in the order they publish; the
\* workflow as written launches one.
Wires == 1..NumWires

\* The reports the editor waits for, one per DESK task of the workflow.
Reports == 3

WorkflowDesks == 1..Reports

\* news = generate_text(instruction, 1024)
WireNews(w) == <<Word(w)>>

\* The WIRE branch: generate, sleep, broadcast once to topic/global_news.
WireBroadcast(w) ==
    /\ Len(news.wired) = w - 1
    /\ bus' = Broadcast(bus, GlobalNews, WireNews(w))
    /\ news' = [news EXCEPT !.wired = Append(@, WireNews(w))]
    /\ UNCHANGED <<store, exported, kv, task, tagrun>>

\* raw_news = subscribe("topic/global_news").await: the desk waits until the
\* topic holds a payload and takes the oldest.
DeskSubscribe(d) ==
    /\ news.desk[d].pc = "idle"
    /\ bus[GlobalNews] # <<>>
    /\ bus' = Subscribe(bus, GlobalNews)
    /\ news' = [news EXCEPT !.desk[d].pc = "got",
                            !.desk[d].raw_news = Head(bus[GlobalNews])]
    /\ UNCHANGED <<store, exported, kv, task, tagrun>>

\* The desk, holding the news, writes and publishes its report.
DeskPublish(d) ==
    /\ news.desk[d].pc = "got"
    /\ PublishReport(d)
    /\ UNCHANGED <<store, exported, kv, task, tagrun>>

DeskStep(d) == DeskSubscribe(d) \/ DeskPublish(d)

\* msg.starts_with("TAG:")
StartsWith(msg, prefix) == msg # <<>> /\ msg[1] = TagAtom(prefix)

\* msg.replace("TAG: ", ""): every occurrence goes.
Replace(msg, prefix) == SelectSeq(msg, LAMBDA a : a # TagAtom(prefix))

\* An editor that stops after two reports.
DoneAfterTwo(i) == i > 2

\* for i in 1..=3
EditorLoopDone(i) == i > 3

\* An editor that counts a report only when it fills an empty slot.
CountFresh(i, fresh) == IF fresh THEN i + 1 ELSE i

\* The loop variable after one receive, whatever was received.
AfterReceive(i, fresh) == i + 1

\* The editor of cycle e starts once the cycle before it is over.
EditorStart(e) ==
    /\ news.editor[e].pc = "idle"
    /\ \A c \in Cycles : c < e => news.editor[c].pc = "done"
    /\ news' = [news EXCEPT !.editor[e] =
            [IdleEditor EXCEPT !.pc = "recv", !.i = 1,
                 !.p_report = <<Literal("(Missing Politics)")>>,
                 !.t_report = <<Literal("(Missing Tech)")>>,
                 !.s_report = <<Literal("(Missing Sports)")>>]]
    /\ UNCHANGED <<store, exported, kv, task, bus, tagrun>>

\* One iteration of the loop: subscribe, then classify by prefix.
EditorReceive(e) ==
    LET ed == news.editor[e]
        msg == Head(bus[EditorInbox])
        fresh == \/ StartsWith(msg, "POLITICS") /\ ed.p_report = <<Literal("(Missing Politics)")>>
                 \/ StartsWith(msg, "TECH") /\ ed.t_report = <<Literal("(Missing Tech)")>>
                 \/ StartsWith(msg, "SPORTS") /\ ed.s_report = <<Literal("(Missing Sports)")>>
    IN  /\ ed.pc = "recv" /\ ~EditorLoopDone(ed.i)
        /\ bus[EditorInbox] # <<>>
        /\ bus' = Subscribe(bus, EditorInbox)
        /\ news' = [news EXCEPT !.editor[e] =
                [ed EXCEPT !.i = AfterReceive(@, fresh),
                           !.received = Append(@, msg),
                           !.p_report = IF StartsWith(msg, "POLITICS")
                                        THEN Replace(msg, "POLITICS") ELSE @,
                           !.t_report = IF ~StartsWith(msg, "POLITICS") /\ StartsWith(msg, "TECH")
                                        THEN Replace(msg, "TECH") ELSE @,
                           !.s_report = IF /\ ~StartsWith(msg, "POLITICS")
                                           /\ ~StartsWith(msg, "TECH")
                                           /\ StartsWith(msg, "SPORTS")
                                        THEN Replace(msg, "SPORTS") ELSE @]]
        /\ UNCHANGED <<store, exported, kv, task, tagrun>>

\* format!("Combine these:\n[POLITICS]\n{}\n\n[TECH]\n{}\n\n[SPORTS]\n{}\n\nINSTRUCTION:\n{}")
EditorPrompt(p_report, t_report, s_report) ==
    <<Literal("Combine these:"), Literal("[POLITICS]")>> \o p_report
        \o <<Literal("[TECH]")>> \o t_report
        \o <<Literal("[SPORTS]")>> \o s_report
        \o <<Literal("INSTRUCTION:")>>

\* The loop is over: the combined prompt is built and generated from.
EditorAggregate(e) ==
    LET ed == news.editor[e]
    IN  /\ ed.pc = "recv" /\ EditorLoopDone(ed.i)
        /\ news' = [news EXCEPT !.editor[e] =
                [ed EXCEPT !.pc = "done",
                           !.prompt = EditorPrompt(ed.p_report, ed.t_report, ed.s_report)]]
        /\ UNCHANGED <<store, exported, kv, task, bus, tagrun>>

EditorStep(e) == EditorStart(e) \/ EditorReceive(e) \/ EditorAggregate(e)

NextNews == (\E d \in Desks : DeskReport(d)) \/ (\E e \in Cycles : EditorStep(e))

\* ------------------------------------------------- tag-protocol agents
\* agent_generator and agent_summarizer.  A "[SAVE:key]", "[LOAD:key]" or
\* "[CID:key]" tag is one atom of a text, like a word.
TagAgents == {"generator", "summarizer"}

IdleRun ==
    [pc |-> "idle", agent |-> "", input |-> "", upstream_empty |-> FALSE,
     mock |-> FALSE, header |-> <<>>,
     first_text |-> <<>>, generated |-> <<>>, returned |-> <<>>]

\* "_ctx_header" as the scheduler injects it: a save directive, or a load
\* directive and a save directive.
CtxHeaders == {<<TagAtom("SAVE")>>, <<TagAtom("LOAD"), TagAtom("SAVE")>>}

\* The --input of a run: empty, not JSON of the schema, or a valid
\* AgentInput with or without "_ctx_header" and with or without upstream
\* results.
TagInputs ==
    {[agent |-> a, input |-> "empty", has_header |-> FALSE, ctx_header |-> <<>>,
      upstream_empty |-> TRUE] : a \in TagAgents}
    \cup {[agent |-> a, input |-> "malformed", has_header |-> FALSE, ctx_header |-> <<>>,
           upstream_empty |-> TRUE] : a \in TagAgents}
    \cup {[agent |-> a, input |-> "valid", has_header |-> FALSE, ctx_header |-> <<>>,
           upstream_empty |-> u] : a \in TagAgents, u \in BOOLEAN}
    \cup {[agent |-> a, input |-> "valid", has_header |-> TRUE, ctx_header |-> h,
           upstream_empty |-> u] : a \in TagAgents, h \in CtxHeaders, u \in BOOLEAN}

\* What the model may write: words, with echoes of tags anywhere.
GeneratedTexts ==
    UNION {[1..k -> {Word(1), TagAtom("SAVE"), TagAtom("LOAD")}] : k \in 1..MaxText}

\* agent_generator: format!("[SAVE:{}_{}]", run_id, node_id)
GeneratorFallback == <<TagAtom("SAVE")>>

\* agent_summarizer: format!("[CID:{}]", run_id)
SummarizerFallback == <<TagAtom("CID")>>

\* input_context.get("_ctx_header"), or the agent's fallback.
HeaderTags(in) ==
    IF in.has_header THEN in.ctx_header
    ELSE IF in.agent = "generator" THEN GeneratorFallback ELSE SummarizerFallback

\* format!("{}You are a ...", header_tags): the text of fill_system, the
\* first text the context receives.
SystemPrompt(header_tags) == header_tags \o <<Literal("You are a ...")>>

\* The run reads its input; a run that does not fail fills its context.
\* agent_generator replaces an empty input by a mock input (no header).
TagFails(in) ==
    \/ in.input = "malformed"
    \/ in.agent = "summarizer" /\ (in.input = "empty" \/ in.upstream_empty)

TagBegin ==
    /\ tagrun.pc = "idle"
    /\ \E in \in TagInputs :
         tagrun' = IF TagFails(in)
                   THEN [IdleRun EXCEPT !.pc = "failed", !.agent = in.agent,
                             !.input = in.input,
                             !.upstream_empty = in.upstream_empty]
                   ELSE [IdleRun EXCEPT !.pc = "filled", !.agent = in.agent,
                             !.input = in.input,
                             !.upstream_empty = in.upstream_empty,
                             !.mock = in.input = "empty",
                             !.header = HeaderTags(in),
                             !.first_text = SystemPrompt(HeaderTags(in))]
    /\ UNCHANGED <<store, exported, kv, task, bus, news>>

\* ctx.generate(sampler, stop_cond).await
TagGenerate ==
    /\ tagrun.pc = "filled"
    /\ \E g \in GeneratedTexts :
         tagrun' = [tagrun EXCEPT !.pc = "generated", !.generated = g]
    /\ UNCHANGED <<store, exported, kv, task, bus, news>>

\* format!("{}:{}", run_id, node_id)
KvsKey(agent) == <<"run", ":", agent>>

\* AgentOutput { content: generated_text, status: "success" } is stored, and
\* the generated text is returned.
TagStore ==
    /\ tagrun.pc = "generated"
    /\ store' = Put(store, KvsKey(tagrun.agent),
                    [content |-> tagrun.generated, status |-> "success"])
    /\ tagrun' = [tagrun EXCEPT !.pc = "done", !.returned = tagrun.generated]
    /\ UNCHANGED <<exported, kv, task, bus, news>>

NextTags == TagBegin \/ TagGenerate \/ TagStore

\* ------------------------------------------------------- end of generate
SaveOrder(kind) ==
    CASE kind = "start" -> StartSaveOrder
      [] kind = "continue" -> ContinueSaveOrder
      [] kind = "merge" -> MergeSaveOrder
      [] OTHER -> StandbySaveOrder

\* ctx.generate(...) returns: the first statement after it runs next.
GenDone(t) ==
    /\ task[t].pc = "gen"
    /\ task[t].added >= 1
    /\ task' = [task EXCEPT ![t].pc = SaveOrder(task[t].kind)[1]]
    /\ UNCHANGED <<store, exported, kv, bus, news, tagrun>>

\* ------------------------------------------------------------ the system
Init ==
    /\ store = <<>>
    /\ exported = <<>>
    /\ kv = <<>>
    /\ task = [t \in Tasks |-> IdleTask]
    /\ bus = [tp \in Topics |-> <<>>]
    /\ news = [wired |-> <<>>,
               published |-> <<>>,
               desk |-> [d \in Desks |-> IdleDesk],
               editor |-> [e \in Cycles |-> IdleEditor]]
    /\ tagrun = IdleRun

\* A step of a run already launched.
Step(t) ==
    \/ StartExport(t) \/ StartMeta(t) \/ StartOutput(t)
    \/ ContinueImport(t) \/ ContinueExport(t) \/ ContinueMeta(t) \/ ContinueOutput(t)
    \/ MergeImport(t) \/ MergeOutput(t)
    \/ StandbyExport(t) \/ StandbyMeta(t) \/ StandbyOutput(t)
    \/ StoryPrefill(t) \/ StoryPass(t) \/ StoryFinish(t)
    \/ StoryExport(t) \/ StoryMeta(t)
    \/ GenStep(t) \/ GenDone(t)

\* The workflow's tasks run one after the other, in any order of agents.
Launch(t) ==
    /\ InFlight = {}
    /\ \/ StartBegin(t) \/ ContinueBegin(t) \/ MergeBegin(t) \/ StandbyBegin(t)
       \/ StoryBegin(t, LineageStoryInputs(t))

Next == \E t \in Tasks : Launch(t) \/ Step(t)

Spec == Init /\ [][Next]_vars

\* start_agent and continue_agent runs interleaved step by step, two at a
\* time: a run may be launched while one other run is in flight.
LaunchConcurrent(t) ==
    /\ \A u, v \in InFlight : u = v
    /\ \/ StartBegin(t) \/ ContinueBegin(t)

StepConcurrent(t) ==
    \/ StartExport(t) \/ StartMeta(t) \/ StartOutput(t)
    \/ ContinueImport(t) \/ ContinueExport(t) \/ ContinueMeta(t) \/ ContinueOutput(t)
    \/ GenStep(t) \/ GenDone(t)

NextConcurrent == \E t \in Tasks : LaunchConcurrent(t) \/ StepConcurrent(t)

SpecConcurrent == Init /\ [][NextConcurrent]_vars

\* What the executor returns over the passes of one run with budget m: a
\* token each time; or tokens and then nothing; or tokens and then a token
\* of the end-of-sequence set.
RECURSIVE Toks(_)
Toks(n) == IF n <= 0 THEN <<>> ELSE <<"tok">> \o Toks(n - 1)

PassResults(m) ==
    {Toks(j) : j \in 0..m} \cup {Append(Toks(j), "eos") : j \in 0..(m - 1)}

\* Inputs of story_agent alone: mode "start" (the parent is not read),
\* "continue", or a string that is none of the known ones; parent_task_id
\* None or Some(a); a prompt of no token, one token or a page of tokens;
\* max_tokens from 0 to MaxNew.
StoryInputs(t) ==
    UNION {{[mode |-> mp[1], parent |-> mp[2], plen |-> n, max_tokens |-> m,
             results |-> r] :
                mp \in {<<"start", <<>>>>} \cup ({"continue", "rewrite"} \X BaseLists(t)),
                n \in {0, 1, PageSize}, r \in PassResults(m)} : m \in 0..MaxNew}

\* The recompute workflow: story_agent runs one after the other, StoryRuns
\* of them.
LaunchStory(t) ==
    /\ InFlight = {}
    /\ t <= StoryRuns
    /\ StoryBegin(t, StoryInputs(t))

StepStory(t) ==
    \/ StoryPrefill(t) \/ StoryPass(t) \/ StoryFinish(t)
    \/ StoryExport(t) \/ StoryMeta(t)

NextStory == \E t \in Tasks : LaunchStory(t) \/ StepStory(t)

SpecStory == Init /\ [][NextStory]_vars




\* The fan-in of the news workflow: desks publish, the editor aggregates.
SpecNews == Init /\ [][NextNews]_vars

\* The scheduler runs an editor that can take a step.
SpecNewsFair == SpecNews /\ WF_vars(\E e \in Cycles : EditorStep(e))

\* The whole news workflow: WIRE runs, the three DESK tasks and the EDITOR,
\* interleaved step by step.
NextWorkflow ==
    \/ \E w \in Wires : WireBroadcast(w)
    \/ \E d \in WorkflowDesks : DeskStep(d)
    \/ EditorStep(1)

SpecWorkflow == Init /\ [][NextWorkflow]_vars

\* The scheduler runs the first WIRE, every desk and the editor whenever
\* they can take a step; a further WIRE run is the environment's choice.
SpecWorkflowFair ==
    /\ SpecWorkflow
    /\ WF_vars(WireBroadcast(1))
    /\ \A d \in WorkflowDesks : WF_vars(DeskStep(d))
    /\ WF_vars(EditorStep(1))

\* One run of a tag-protocol agent.
SpecTags == Init /\ [][NextTags]_vars

\* ======================================================================
\* Properties
\* ======================================================================
HasChain(m) == "kv_chain" \in m.fields

Persisted(t) == MetaKey(t) \in DOMAIN store

Record(t) == store[MetaKey(t)]

\* The tasks of a kind whose run has gone past a given set of positions.
Past(t, kinds, pcs) == task[t].kind \in kinds /\ task[t].pc \in pcs

\* C1: a root's persisted kv_chain is exactly ["{root}_kv"]; a continue
\* task's persisted kv_chain is its base's persisted kv_chain, unchanged and
\* in order, followed by the one key "{T}_kv" (so one longer than the base's).
C1_ChainAppendOnly ==
    \A t \in Tasks :
        Persisted(t) =>
            /\ task[t].kind = "start" => Record(t).kv_chain = <<KvKey(t)>>
            /\ task[t].kind = "continue" =>
                 LET a == task[t].parents[1]
                 IN  /\ Persisted(a)
                     /\ Record(t).kv_chain = Record(a).kv_chain \o <<KvKey(t)>>
                     /\ Len(Record(t).kv_chain) = Len(Record(a).kv_chain) + 1
                     /\ \A i \in 1..Len(Record(a).kv_chain) :
                            Record(t).kv_chain[i] = Record(a).kv_chain[i]

\* A continue task of a continue task of a root has persisted a 3-key chain.
C1_Witness ==
    \E t \in Tasks :
        /\ Persisted(t) /\ task[t].kind = "continue"
        /\ Len(Record(t).kv_chain) = 3
        /\ task[task[t].parents[1]].kind = "continue"

\* The export calls made so far under a key, as (task, log index) pairs.
ExportsOf(k) ==
    UNION {{<<t, i>> : i \in {j \in 1..Len(task[t].log) :
                                task[t].log[j] = [op |-> "export", key |-> k]}}
           : t \in Tasks}

AllKeys == {KvKey(t) : t \in Tasks} \cup {StoryKvKey(t) : t \in Tasks}

\* C2: with every task identifier run at most once, no persisted kv_chain
\* holds a key twice and no key is exported more than once.
C2_NoKeyTwice ==
    /\ \A t \in Tasks :
          (Persisted(t) /\ HasChain(Record(t))) =>
              \A i, j \in 1..Len(Record(t).kv_chain) :
                  i # j => Record(t).kv_chain[i] # Record(t).kv_chain[j]
    /\ \A k \in AllKeys : Cardinality(ExportsOf(k)) <= 1

\* A continue task has exported its key and persisted a chain of two keys.
C2_Witness ==
    \E t \in Tasks :
        /\ Persisted(t) /\ task[t].kind = "continue"
        /\ Len(Record(t).kv_chain) >= 2
        /\ Cardinality(ExportsOf(KvKey(t))) = 1


\* The pages a task imported: the prefix of its page list it did not allocate.
ImportedPages(t) == SubSeq(task[t].pages, 1, task[t].imported)

RECURSIVE SumLens(_)
SumLens(chain) ==
    IF chain = <<>> THEN 0 ELSE Len(ImportKvPages(Head(chain))) + SumLens(Tail(chain))

AfterImport == {"gen", "export", "meta", "output", "done"}

\* C3: a task T with base A holds, once its resolver has run, as many
\* imported segments as the keys of A's chain reference in total, and they
\* are, segment for segment and in order, the list A held when it persisted
\* its record, which covers A's token positions from 0 with no gap.
C3_ResolverReproducesBase ==
    \A t \in Tasks :
        Past(t, {"continue", "merge"}, AfterImport) =>
            LET a == task[t].parents[1]
                n == Len(Record(a).token_ids)
            IN  /\ task[t].imported = SumLens(task[t].chain)
                /\ HasChain(Record(a)) => task[t].chain = Record(a).kv_chain
                /\ ImportedPages(t) = task[a].pages
                /\ task[t].imported * PageSize >= n
                /\ n > 0 => (task[t].imported - 1) * PageSize < n

\* A task has resolved the two-key chain of a continue task whose keys both
\* reference segments.
C3_Witness ==
    \E t \in Tasks :
        /\ Past(t, {"continue", "merge"}, AfterImport)
        /\ Len(task[t].chain) = 2
        /\ \A i \in 1..2 : Len(ImportKvPages(task[t].chain[i])) >= 1
        /\ task[t].imported >= 2

AfterExport == {"meta", "output", "done"}

NewCount(t) == Len(task[t].pages) - task[t].imported

NumExports(t) ==
    Cardinality({i \in 1..Len(task[t].log) : task[t].log[i].op = "export"})

\* C6: a continue task that has passed its export step has new_count =
\* total - imported >= 0, has made exactly one export call, under
\* "{task_id}_kv", and what it exported is exactly the segments at indices
\* [imported, total): none of the imported ones, empty when new_count = 0.
C6_DeltaExport ==
    \A t \in Tasks :
        Past(t, {"continue"}, AfterExport) =>
            /\ NewCount(t) >= 0
            /\ NumExports(t) = 1
            /\ task[t].log[1] = [op |-> "export", key |-> KvKey(t)]
            /\ KvKey(t) \in DOMAIN exported
            /\ exported[KvKey(t)] =
                  SubSeq(task[t].pages, task[t].imported + 1, Len(task[t].pages))
            /\ Len(exported[KvKey(t)]) = NewCount(t)
            /\ \A i \in 1..Len(exported[KvKey(t)]) :
                  \A j \in 1..task[t].imported :
                      exported[KvKey(t)][i] # task[t].pages[j]

\* A continue task with imported segments has exported a non-empty delta.
C6_Witness ==
    \E t \in Tasks :
        /\ Past(t, {"continue"}, AfterExport)
        /\ task[t].imported >= 1
        /\ NewCount(t) >= 1

\* C7 as first stated: a continue task that added fewer tokens than one
\* segment holds allocated no segment and recorded an empty export.
C7_FewerThanCapacity ==
    \A t \in Tasks :
        (Past(t, {"continue"}, AfterExport) /\ task[t].added < PageSize) =>
            /\ NewCount(t) = 0
            /\ KvKey(t) \in DOMAIN exported /\ exported[KvKey(t)] = <<>>

\* The slots left free in the last segment of the base's record.
FreeSlots(t) == PageSize - Record(task[t].parents[1]).kv_page_last_len

\* C7: a continue task that added no more tokens than the slots left free in
\* the inherited last segment (capacity - kv_page_last_len) has new_count = 0
\* and an empty export recorded under its key, for every fill level.
C7_FitsInLastSegment ==
    \A t \in Tasks :
        (Past(t, {"continue"}, AfterExport) /\ task[t].added <= FreeSlots(t)) =>
            /\ NewCount(t) = 0
            /\ KvKey(t) \in DOMAIN exported /\ exported[KvKey(t)] = <<>>

\* A continue task has added a token to a partially filled inherited segment.
C7_Witness ==
    \E t \in Tasks :
        /\ Past(t, {"continue"}, AfterExport)
        /\ task[t].added >= 1
        /\ task[t].added <= FreeSlots(t)

\* C10: whenever a LineageRecord is in the store every key of its kv_chain
\* has been exported; a start_agent or continue_agent run exports before it
\* writes its record, writes it once, and writes no other task's record.
C10_ExportBeforeRecord ==
    \A t \in Tasks :
        /\ (Persisted(t) /\ HasChain(Record(t))) =>
              \A i \in 1..Len(Record(t).kv_chain) :
                  Record(t).kv_chain[i] \in DOMAIN exported
        /\ task[t].kind \in {"start", "continue"} =>
              LET log == task[t].log
                  metas == {i \in 1..Len(log) : log[i] = [op |-> "set", key |-> MetaKey(t)]}
              IN  /\ Cardinality(metas) <= 1
                  /\ task[t].pc \in {"output", "done"} => Cardinality(metas) = 1
                  /\ \A i \in metas : \E j \in 1..(i - 1) : log[j].op = "export"
                  /\ \A i \in 1..Len(log) : \A u \in Tasks \ {t} :
                        log[i].key # MetaKey(u)
                  /\ Persisted(t) <=> metas # {}

\* A continue task has written its record, after its export, while another
\* run is between its own export and its own record.
C10_Witness ==
    \E t, u \in Tasks :
        /\ task[t].kind = "continue" /\ Persisted(t)
        /\ task[task[t].parents[1]].kind = "start"
        /\ task[t].pc = "output"
        /\ u # t /\ task[u].pc = "meta"


\* The base's record is a legacy one: complete but for its kv_chain, which
\* is absent or empty, and the task has read it.
LegacyBase(t) ==
    /\ task[t].kind \in {"continue", "merge"}
    /\ Len(task[t].parents) >= (IF task[t].kind = "merge" THEN 2 ELSE 1)
    /\ ~task[t].base_missing
    /\ Persisted(task[t].parents[1])
    /\ {"token_ids", "kv_page_last_len"} \subseteq Record(task[t].parents[1]).fields
    /\ (~HasChain(Record(task[t].parents[1]))
            \/ Record(task[t].parents[1]).kv_chain = <<>>)

\* C4: a continue_agent or merge_agent run whose base record has no kv_chain
\* field, or an empty one, does not fail: it imports the single legacy key
\* "{ancestor_id}_kv" and goes on with the segments found under it.
C4_LegacyFallback ==
    \A t \in Tasks :
        LegacyBase(t) =>
            /\ task[t].pc # "failed"
            /\ task[t].pc \in AfterImport =>
                  /\ task[t].chain = <<KvKey(task[t].parents[1])>>
                  /\ ImportedPages(t) = ImportKvPages(KvKey(task[t].parents[1]))

\* C5: a run that found no LineageRecord for its declared base has failed,
\* and it has allocated nothing, generated nothing, exported nothing and
\* written no store key; it did not go on as a root would.
C5_MissingRecordFatal ==
    \A t \in Tasks :
        task[t].base_missing =>
            /\ task[t].pc = "failed"
            /\ task[t].pages = <<>> /\ task[t].token_ids = <<>>
            /\ task[t].added = 0
            /\ task[t].log = <<>>

\* The tokens whose KV entries a list of pages holds, in position order.
RECURSIVE Span(_)
Span(pages) ==
    IF pages = <<>> THEN <<>>
    ELSE SelectSeq(kv[Head(pages)].data, LAMBDA x : x # NoTok) \o Span(Tail(pages))

\* C8: right after a continue task's export, importing "{task_id}_kv" gives
\* segments whose tokens are exactly the tokens the task added to its base's
\* history: no inherited token, no added token missing.
C8_RoundTrip ==
    \A t \in Tasks :
        Past(t, {"continue"}, {"meta"}) =>
            Span(ImportKvPages(KvKey(t))) =
                SubSeq(task[t].token_ids, task[t].base_len + 1, Len(task[t].token_ids))

\* C9: no step of a continue_agent or merge_agent run changes the content
\* of a segment the run imported, the partially filled last one included.
C9_ImportedUntouched ==
    [][\A t \in Tasks :
          (task'[t] # task[t] /\ task[t].kind \in {"continue", "merge"}) =>
              \A i \in 1..task[t].imported :
                  kv'[task[t].pages[i]] = kv[task[t].pages[i]]]_vars

\* The chain a non-root task's record should extend: its base's recorded
\* kv_chain.
BaseChain(t) ==
    IF task[t].parents # <<>> /\ Persisted(task[t].parents[1])
    THEN MergeChainOf(Record(task[t].parents[1]))
    ELSE <<>>

\* C11: every non-root run (continue_agent, merge_agent,
\* continue_agent_standby) that has returned successfully has exported under
\* "{task_id}_kv" and persisted a record "{task_id}_meta" whose kv_chain is its
\* base's kv_chain followed by its own key.
C11_NonRootPersists ==
    \A t \in Tasks :
        Past(t, {"continue", "merge", "standby"}, {"done"}) =>
            /\ KvKey(t) \in DOMAIN exported
            /\ Persisted(t)
            /\ HasChain(Record(t))
            /\ Record(t).kv_chain = Append(BaseChain(t), KvKey(t))

\* C12: a completed story_agent run has exported under "{task_id}_kv" and
\* persisted a record with token_ids, kv_page_last_len and kv_chain, and a
\* continue_agent run that names it as base reads the record and goes on.
C12_RecomputeSameSchema ==
    /\ \A t \in Tasks :
          Past(t, {"story"}, {"done"}) =>
              /\ KvKey(t) \in DOMAIN exported
              /\ Persisted(t)
              /\ Record(t).fields = {"token_ids", "kv_page_last_len", "kv_chain"}
    /\ \A t \in Tasks :
          (/\ task[t].kind = "continue" /\ task[t].parents # <<>>
           /\ Past(task[t].parents[1], {"story"}, {"done"})) =>
              task[t].pc # "failed"

\* The token sequence of a story_agent run as it stands: the history, and
\* inside the loop the tokens about to join it.
Seen(t) ==
    IF task[t].pc \in {"loop", "finish"}
    THEN task[t].token_ids \o task[t].tokens_to_process
    ELSE task[t].token_ids

\* C13: over the prefill pass and the generation passes of a story_agent
\* run, the i-th token fed is fed at position i - 1 and is the i-th token of
\* the run's token sequence: positions start at 0, each pass goes on where
\* the one before stopped, none is skipped, none is fed twice.
C13_PositionsContiguous ==
    \A t \in Tasks :
        task[t].kind = "story" =>
            \A i \in 1..Len(task[t].fed) :
                /\ task[t].fed[i].pos = i - 1
                /\ i <= Len(Seen(t))
                /\ task[t].fed[i].tok = Seen(t)[i]

\* A run with a history that has fed a prefill pass and two generation passes.
C13_Witness ==
    \E t \in Tasks :
        /\ Past(t, {"story"}, {"export"})
        /\ task[t].base_len > 0
        /\ task[t].passes >= 2
        /\ Len(task[t].fed) >= task[t].base_len + 2

\* The tokens a story_agent run generated, once it has left the loop.
Generated(t) ==
    SubSeq(task[t].token_ids,
           Len(task[t].token_ids) - task[t].gen_count + 1, Len(task[t].token_ids))

\* The loop's accounting: at most max_tokens tokens and passes, no pass
\* after one that returned no token or an end-of-sequence token.
LoopBounded(t) ==
    /\ task[t].gen_count <= task[t].max_tokens
    /\ task[t].passes <= task[t].max_tokens
    /\ task[t].passes <= task[t].gen_count + 1
    /\ task[t].pc = "loop" =>
          /\ task[t].passes = task[t].gen_count
          /\ task[t].gen_count > 0 => task[t].tokens_to_process # <<EosTok>>
    /\ task[t].pc \in {"export", "meta"} =>
          \A i \in 1..(task[t].gen_count - 1) : Generated(t)[i] # EosTok

\* C14: the generation loop of story_agent ends within max_tokens passes: a
\* run in the loop can always take its next step, a pass either leaves the
\* loop or raises gen_count by one, and gen_count never exceeds max_tokens;
\* it generates no token after an end-of-sequence token, runs no pass after
\* one that returned no token, and no generation pass when max_tokens is 0.
C14_LoopTerminates ==
    /\ [](\A t \in Tasks :
            task[t].kind = "story" =>
                /\ LoopBounded(t)
                /\ task[t].pc = "loop" => ENABLED (StoryPass(t) \/ StoryFinish(t)))
    /\ [][\A t \in Tasks :
            (task[t].pc = "loop" /\ task'[t].pc = "loop") =>
                task'[t].gen_count = task[t].gen_count + 1]_vars

\* Runs that stopped on an end-of-sequence token before the budget was used.
C14_Witness ==
    \E t \in Tasks :
        /\ Past(t, {"story"}, {"export"})
        /\ task[t].max_tokens = MaxNew
        /\ task[t].gen_count = 1
        /\ task[t].passes = 1
        /\ Generated(t) = <<EosTok>>

\* C15: a story_agent run whose mode is none of "start", "continue" and
\* "merge" starts from the history a run in mode "continue" with the same
\* parent starts from: the parent's recorded token_ids.
C15_UnknownModeAsContinue ==
    \A t \in Tasks :
        (/\ Past(t, {"story"}, {"prefill"})
         /\ task[t].mode \notin {"start", "continue", "merge"}) =>
            task[t].token_ids = StoryHistory("continue", task[t].parents)

\* The report of a given prefix among the payloads an editor received.
MsgWith(e, prefix) ==
    CHOOSE m \in {news.editor[e].received[k] : k \in 1..Len(news.editor[e].received)} :
        StartsWith(m, prefix)

\* The editor received one report of each prefix.
OneOfEach(e) ==
    \A prefix \in Prefixes :
        \E k \in 1..Len(news.editor[e].received) :
            StartsWith(news.editor[e].received[k], prefix)

\* C16: when the three payloads an editor received carry the prefixes
\* "POLITICS:", "TECH:" and "SPORTS:", in whatever order they arrived, the
\* combined prompt holds under each heading the body of the payload of that
\* prefix, unaltered, and no "(Missing ...)" placeholder.
C16_FanInByPrefix ==
    \A e \in Cycles :
        (news.editor[e].pc = "done" /\ OneOfEach(e)) =>
            news.editor[e].prompt =
                EditorPrompt(Tail(MsgWith(e, "POLITICS")), Tail(MsgWith(e, "TECH")),
                             Tail(MsgWith(e, "SPORTS")))

\* C17: the editor of cycle e finishes only if 3 payloads per cycle so far
\* have been published to topic/editor_inbox (with fewer it stays in
\* receive), and once they have been published it does finish.
C17_FanInLiveness ==
    /\ [](\A e \in Cycles :
            /\ news.editor[e].pc = "done" => Len(news.published) >= 3 * e
            /\ Len(news.editor[e].received) <= Len(news.published))
    /\ \A e \in Cycles :
            (Len(news.published) >= 3 * e) ~> (news.editor[e].pc = "done")

\* Exactly three payloads were published and the first editor has finished.
C17_Witness ==
    /\ Len(news.published) = 3
    /\ news.editor[1].pc = "done"
    /\ bus[EditorInbox] = <<>>

\* Everything the editors received, cycle after cycle.
RECURSIVE ReceivedUpTo(_)
ReceivedUpTo(e) ==
    IF e = 0 THEN <<>> ELSE ReceivedUpTo(e - 1) \o news.editor[e].received

\* C18: an editor that has left its loop has received exactly 3 payloads,
\* whatever their prefixes; what the editors received, cycle after cycle,
\* followed by what is still queued, is what was published, in order: the
\* first cycle takes the 3 oldest, the surplus stays queued and goes first
\* to the next cycle.
C18_ThreeReceivesFifo ==
    /\ \A e \in Cycles :
          /\ Len(news.editor[e].received) <= 3
          /\ (news.editor[e].pc = "done" \/ EditorLoopDone(news.editor[e].i)) =>
                Len(news.editor[e].received) = 3
    /\ ReceivedUpTo(NumCycles) \o bus[EditorInbox] = news.published

\* Four payloads, the first three of one prefix; the first editor finished
\* and the next cycle received the fourth.
C18_Witness ==
    /\ Len(news.published) = 4
    /\ \A k \in 1..3 : StartsWith(news.published[k], "POLITICS")
    /\ news.editor[1].pc = "done"
    /\ news.editor[2].received = <<news.published[4]>>

IsDirective(a) == a.tag \in {"SAVE", "LOAD"}

NoDirective(text) == \A k \in 1..Len(text) : ~IsDirective(text[k])

\* C19: the text a tag-protocol run returns and the content it stores hold
\* no "[SAVE:...]" and no "[LOAD:...]" tag, whatever the model generated.
C19_TagsStripped ==
    tagrun.pc = "done" =>
        /\ NoDirective(tagrun.returned)
        /\ NoDirective(store[KvsKey(tagrun.agent)].content)

\* C20: the first text a tag-protocol run sends to the model begins with
\* the cache-control header, the injected "_ctx_header" or else the agent's
\* fallback, and the fallback is a save or a load directive.
C20_HeaderFirst ==
    tagrun.pc \in {"filled", "generated", "done"} =>
        /\ Len(tagrun.first_text) >= Len(tagrun.header)
        /\ SubSeq(tagrun.first_text, 1, Len(tagrun.header)) = tagrun.header
        /\ tagrun.header # <<>>
        /\ \A k \in 1..Len(tagrun.header) : IsDirective(tagrun.header[k])

\* C21: a run that found no text output "{id}_output" for a predecessor it
\* refers to (the parent of continue_agent_standby, a reference of
\* merge_agent) has failed, and it has generated nothing, exported nothing
\* and written no store key.
C21_MissingOutputFatal ==
    \A t \in Tasks :
        task[t].missing_ref =>
            /\ task[t].pc = "failed"
            /\ task[t].pages = <<>>
            /\ task[t].added = 0
            /\ task[t].log = <<>>

\* The input of the tag-protocol run cannot be used as it is.
UnusableInput ==
    /\ tagrun.pc # "idle"
    /\ \/ tagrun.input \in {"empty", "malformed"}
       \/ tagrun.agent = "summarizer" /\ tagrun.upstream_empty

\* C22: a run whose input does not parse, is empty, or lacks the
\* predecessors it requires (no parent for continue_agent, fewer than two
\* for merge_agent, no upstream result for agent_summarizer) has failed
\* having sent nothing to the model, generated nothing and written nothing.
C22_MalformedInputFatal ==
    /\ UnusableInput =>
          /\ tagrun.pc = "failed"
          /\ tagrun.first_text = <<>> /\ tagrun.generated = <<>>
          /\ KvsKey(tagrun.agent) \notin DOMAIN store
    /\ \A t \in Tasks :
          (\/ task[t].kind = "continue" /\ task[t].parents = <<>>
           \/ task[t].kind = "merge" /\ Len(task[t].parents) < 2) =>
              /\ task[t].pc = "failed"
              /\ task[t].pages = <<>> /\ task[t].log = <<>>

\* What a story_agent run should persist: the history it loaded, its prompt
\* tokens, the tokens it generated, in that order.
Expected(t) ==
    StoryHistory(task[t].mode, task[t].parents) \o task[t].prompt \o task[t].generated

\* C23: on every way out of the generation of a story_agent run, the
\* token_ids it holds, and then writes into its record, are the loaded
\* parent history, then the prompt tokens, then the generated tokens in
\* generation order: none dropped, none twice.
C23_TokenIdsComplete ==
    /\ [](\A t \in Tasks :
            Past(t, {"story"}, {"export", "meta"}) => task[t].token_ids = Expected(t))
    /\ [][\A t \in Tasks :
            (Past(t, {"story"}, {"meta"}) /\ task'[t].pc = "done") =>
                store'[MetaKey(t)].token_ids = Expected(t)]_vars

\* A run with a history that generated a token and then got no token from
\* the executor, about to write its record.
C23_Witness ==
    \E t \in Tasks :
        /\ Past(t, {"story"}, {"meta"})
        /\ task[t].base_len > 0
        /\ task[t].prompt # <<>>
        /\ task[t].gen_count >= 1
        /\ task[t].passes = task[t].gen_count + 1

\* C24: every forward pass of a story_agent run, prefill or generation,
\* found enough segments allocated for the positions it fed:
\* segments * capacity >= highest position fed + 1.
C24_CapacityBeforePass ==
    \A t \in Tasks :
        task[t].kind = "story" =>
            \A i \in 1..Len(task[t].passlog) :
                task[t].passlog[i].segments * PageSize >= task[t].passlog[i].last_pos + 1

\* Two continue_agent runs of the same base, both holding their segments.
Siblings(t, u) ==
    /\ t # u
    /\ Past(t, {"continue"}, AfterImport \ {"done"})
    /\ Past(u, {"continue"}, AfterImport \ {"done"})
    /\ task[t].parents[1] = task[u].parents[1]

\* C25: two continue tasks of the same base running at the same time do not
\* interfere: no step of one changes the content of a segment the other
\* holds, the base's partially filled last segment included.
C25_SiblingsIndependent ==
    [][\A t, u \in Tasks :
          (Siblings(t, u) /\ task'[t] # task[t]) =>
              \A i \in 1..Len(task[u].pages) :
                  kv'[task[u].pages[i]] = kv[task[u].pages[i]]]_vars

\* Every desk of the workflow has published its report and the editor has
\* finished.
WorkflowDone ==
    /\ \A d \in WorkflowDesks : news.desk[d].pc = "done"
    /\ news.editor[1].pc = "done"

\* C26: in the news workflow with one WIRE that publishes once, three DESK
\* tasks and one EDITOR, under fair scheduling, every DESK eventually
\* receives the payload and publishes its report and the EDITOR eventually
\* finishes (unless a further WIRE run publishes).
C26_WorkflowCompletes == <>(WorkflowDone \/ Len(news.wired) >= 2)

====
